---- MODULE Spec2Model ----
(***************************************************************************)
(* A model of GiftParser (src/gift_to_pdf.py): the GIFT question-bank      *)
(* parser.  Text is a sequence of one-character strings; every regular     *)
(* expression and string method the parser uses is an operator computing   *)
(* what the Python call computes.                                          *)
(***************************************************************************)
EXTENDS Integers, Sequences, FiniteSets, TLC

VARIABLES content, blocks, i, questions, current_category, pc, returned

vars == <<content, blocks, i, questions, current_category, pc, returned>>

(***************************************************************************)
(* Bounds of the checked input space.                                      *)
(***************************************************************************)
MaxBlocks == 4
MaxPieces == 4
MaxItems == 2
MaxLines == 2
MaxCalls == 2

(***************************************************************************)
(* Python values.                                                          *)
(***************************************************************************)
None == <<"None">>

\* the default category of __init__, a Cyrillic literal, as one symbol
DefaultCategory == <<"Obshchie voprosy">>

\* the whitespace characters the texts use
Whitespace == {" ", "\t", "\n"}

Digits == {"0", "1", "2", "3", "4", "5", "6", "7", "8", "9"}

Min(S) == CHOOSE x \in S : \A y \in S : x <= y

Max(S) == CHOOSE x \in S : \A y \in S : x >= y

\* s[a:b] with 1-based inclusive bounds
Slice(s, a, b) == SubSeq(s, a, b)

\* s[a:]
From(s, a) == SubSeq(s, a, Len(s))

\* str.startswith
startswith(s, p) == Len(p) <= Len(s) /\ SubSeq(s, 1, Len(p)) = p

\* str.endswith
endswith(s, p) == Len(p) <= Len(s) /\ SubSeq(s, Len(s) - Len(p) + 1, Len(s)) = p

\* str.find(sub, k): the first index >= k where sub occurs, 0 when none
find(s, sub, k) ==
    LET occ == {j \in k..(Len(s) - Len(sub) + 1) : SubSeq(s, j, j + Len(sub) - 1) = sub}
    IN IF occ = {} THEN 0 ELSE Min(occ)

\* sub in s
contains(s, sub) == find(s, sub, 1) # 0

\* str.strip
strip(s) ==
    LET keep == {j \in 1..Len(s) : s[j] \notin Whitespace}
    IN IF keep = {} THEN <<>> ELSE SubSeq(s, Min(keep), Max(keep))

\* str.replace(old, '')
RECURSIVE remove(_, _)
remove(s, old) ==
    LET j == find(s, old, 1)
    IN IF j = 0 THEN s
       ELSE Slice(s, 1, j - 1) \o remove(From(s, j + Len(old)), old)

\* str.split(sep)
RECURSIVE split(_, _)
split(s, sep) ==
    LET j == find(s, sep, 1)
    IN IF j = 0 THEN <<s>>
       ELSE <<Slice(s, 1, j - 1)>> \o split(From(s, j + Len(sep)), sep)

\* sep.join(parts)
RECURSIVE join(_, _)
join(parts, sep) ==
    IF parts = <<>> THEN <<>>
    ELSE IF Len(parts) = 1 THEN parts[1]
    ELSE parts[1] \o sep \o join(Tail(parts), sep)

LowerLetters ==
    <<"a", "b", "c", "d", "e", "f", "g", "h", "i", "j", "k", "l", "m",
      "n", "o", "p", "q", "r", "s", "t", "u", "v", "w", "x", "y", "z">>

UpperLetters ==
    <<"A", "B", "C", "D", "E", "F", "G", "H", "I", "J", "K", "L", "M",
      "N", "O", "P", "Q", "R", "S", "T", "U", "V", "W", "X", "Y", "Z">>

UpperChar(c) ==
    LET at == {j \in 1..26 : LowerLetters[j] = c}
    IN IF at = {} THEN c ELSE UpperLetters[CHOOSE j \in at : TRUE]

\* str.upper
upper(s) == [j \in 1..Len(s) |-> UpperChar(s[j])]

(***************************************************************************)
(* float(token) and f"{value}".  A float is <<"float", sign, ip, fp>>: the *)
(* sign character, the integer part and the fraction digits without        *)
(* trailing zeros.                                                         *)
(***************************************************************************)
DigitVal(c) ==
    CASE c = "0" -> 0 [] c = "1" -> 1 [] c = "2" -> 2 [] c = "3" -> 3 [] c = "4" -> 4
      [] c = "5" -> 5 [] c = "6" -> 6 [] c = "7" -> 7 [] c = "8" -> 8 [] c = "9" -> 9

DigitChar(n) == <<"0", "1", "2", "3", "4", "5", "6", "7", "8", "9">>[n + 1]

RECURSIVE DigitsToNat(_)
DigitsToNat(ds) ==
    IF ds = <<>> THEN 0
    ELSE 10 * DigitsToNat(Slice(ds, 1, Len(ds) - 1)) + DigitVal(ds[Len(ds)])

RECURSIVE NatToDigits(_)
NatToDigits(n) ==
    IF n < 10 THEN <<DigitChar(n)>>
    ELSE NatToDigits(n \div 10) \o <<DigitChar(n % 10)>>

AllDigits(s) == \A j \in 1..Len(s) : s[j] \in Digits

RECURSIVE StripZeros(_)
StripZeros(ds) ==
    IF ds # <<>> /\ ds[Len(ds)] = "0" THEN StripZeros(Slice(ds, 1, Len(ds) - 1)) ELSE ds

Float(sign, ip, fp) == <<"float", sign, ip, fp>>

FloatZero == Float("+", 0, <<>>)

\* the unsigned part of a float literal: digits, digits '.' digits*, '.' digits
FloatBodyOk(b) ==
    LET d == find(b, <<".">>, 1)
    IN IF d = 0 THEN b # <<>> /\ AllDigits(b)
       ELSE /\ AllDigits(Slice(b, 1, d - 1))
            /\ AllDigits(From(b, d + 1))
            /\ Len(b) > 1

\* float(t) raises ValueError exactly when this is false
FloatOk(t) ==
    /\ t # <<>>
    /\ FloatBodyOk(IF t[1] \in {"+", "-"} THEN Tail(t) ELSE t)

\* float(t) for a token float accepts
float(t) ==
    LET sign == IF t[1] = "-" THEN "-" ELSE "+"
        b == IF t[1] \in {"+", "-"} THEN Tail(t) ELSE t
        d == find(b, <<".">>, 1)
    IN IF d = 0 THEN Float(sign, DigitsToNat(b), <<>>)
       ELSE Float(sign, DigitsToNat(Slice(b, 1, d - 1)), StripZeros(From(b, d + 1)))

\* value > 0
FloatPositive(v) == v[2] = "+" /\ (v[3] > 0 \/ v[4] # <<>>)

\* f"{value}" of a float: the integer part, a point and at least one digit
FloatStr(v) ==
    (IF v[2] = "-" THEN <<"-">> ELSE <<>>)
    \o NatToDigits(v[3]) \o <<".">> \o (IF v[4] = <<>> THEN <<"0">> ELSE v[4])

(***************************************************************************)
(* GiftParser._remove_comments                                             *)
(***************************************************************************)
\* re.sub(r'//.*$', '', line): '.' stops at the end of the line
CutLineComment(line) ==
    LET j == find(line, <<"/", "/">>, 1)
    IN IF j = 0 THEN line ELSE Slice(line, 1, j - 1)

\* re.sub(r'//.*$', '', content, flags=re.MULTILINE)
RemoveLineComments(text) ==
    LET lines == split(text, <<"\n">>)
    IN join([k \in 1..Len(lines) |-> CutLineComment(lines[k])], <<"\n">>)

\* re.sub(r'/\*.*?\*/', '', content, flags=re.DOTALL)
RECURSIVE RemoveBlockComments(_)
RemoveBlockComments(text) ==
    LET open == find(text, <<"/", "*">>, 1)
        close == IF open = 0 THEN 0 ELSE find(text, <<"*", "/">>, open + 2)
    IN IF close = 0 THEN text
       ELSE Slice(text, 1, open - 1) \o RemoveBlockComments(From(text, close + 2))

_remove_comments(text) == RemoveBlockComments(RemoveLineComments(text))

(***************************************************************************)
(* re.split(r'\n\s*\n', content): a separator starts at a newline and ends *)
(* at the last newline of the whitespace run that follows it.              *)
(***************************************************************************)
\* the last index of the whitespace run that starts right after index k
RunEnd(s, k) ==
    LET stop == {j \in (k + 1)..Len(s) : s[j] \notin Whitespace}
    IN IF stop = {} THEN Len(s) ELSE Min(stop) - 1

\* the index of the last newline the separator starting at k can end at, 0 when none
SeparatorEnd(s, k) ==
    LET nl == {j \in (k + 1)..RunEnd(s, k) : s[j] = "\n"}
    IN IF nl = {} THEN 0 ELSE Max(nl)

RECURSIVE SplitBlocks(_)
SplitBlocks(s) ==
    LET starts == {k \in 1..Len(s) : s[k] = "\n" /\ SeparatorEnd(s, k) # 0}
    IN IF starts = {} THEN <<s>>
       ELSE LET k == Min(starts)
            IN <<Slice(s, 1, k - 1)>> \o SplitBlocks(From(s, SeparatorEnd(s, k) + 1))

(***************************************************************************)
(* GiftParser._parse_numerical                                             *)
(***************************************************************************)
NumChars == Digits \cup {".", "-", "+"}

TolChars == Digits \cup {"."}

\* the last index of the run of characters of set cs that starts at k (k - 1 when empty)
RunOf(s, k, cs) ==
    LET stop == {j \in k..Len(s) : s[j] \notin cs}
    IN IF stop = {} THEN Len(s) ELSE Min(stop) - 1

\* where [\d\.\-\+]+ starts when '#\s*[\d\.\-\+]+' matches at k, 0 when it does not
NumberStart(s, k) ==
    IF k > Len(s) \/ s[k] # "#" THEN 0
    ELSE LET n == RunOf(s, k + 1, Whitespace) + 1
         IN IF n <= Len(s) /\ s[n] \in NumChars THEN n ELSE 0

\* re.match(r'^#\s*[\d\.\-\+]+', answers_block)
IsNumerical(s) == NumberStart(s, 1) # 0

\* re.findall(r'#\s*([\d\.\-\+]+)(?::([\d\.]+))?', s): the pairs of groups
RECURSIVE NumericalMatches(_)
NumericalMatches(s) ==
    LET at == {k \in 1..Len(s) : NumberStart(s, k) # 0}
    IN IF at = {} THEN <<>>
       ELSE LET n == NumberStart(s, Min(at))
                e == RunOf(s, n, NumChars)
                hasTol == e + 2 <= Len(s) /\ s[e + 1] = ":" /\ s[e + 2] \in TolChars
                t == IF hasTol THEN RunOf(s, e + 2, TolChars) ELSE e
            IN <<<<Slice(s, n, e), IF hasTol THEN Slice(s, e + 2, t) ELSE <<>>>>>>
               \o NumericalMatches(From(s, t + 1))

\* float(match[0]) or float(match[1]) raises ValueError for some match
NumericalRaises(s) ==
    LET ms == NumericalMatches(s)
    IN \E k \in 1..Len(ms) :
          \/ ~FloatOk(ms[k][1])
          \/ ms[k][2] # <<>> /\ ~FloatOk(ms[k][2])

NumericalAnswer(m) ==
    LET value == float(m[1])
        tolerance == IF m[2] # <<>> THEN float(m[2]) ELSE FloatZero
    IN [value |-> value,
        tolerance |-> tolerance,
        text |-> FloatStr(value)
                 \o (IF FloatPositive(tolerance)
                     THEN <<" ", "±", " ">> \o FloatStr(tolerance) ELSE <<>>)]

_parse_numerical(s) ==
    LET ms == NumericalMatches(s)
    IN [k \in 1..Len(ms) |-> NumericalAnswer(ms[k])]

(***************************************************************************)
(* GiftParser._parse_answer_with_feedback                                  *)
(***************************************************************************)
\* re.match(r'^(\d+(?:\.\d+)?)%$', s)
IsPercentage(s) ==
    /\ Len(s) >= 2
    /\ s[Len(s)] = "%"
    /\ LET b == Slice(s, 1, Len(s) - 1)
           d == find(b, <<".">>, 1)
       IN IF d = 0 THEN AllDigits(b)
          ELSE /\ d > 1 /\ d < Len(b)
               /\ AllDigits(Slice(b, 1, d - 1))
               /\ AllDigits(From(b, d + 1))

\* a faulty variant of _parse_answer_with_feedback: after a percentage only the
\* third segment is kept as feedback
_parse_answer_with_feedback_ThirdOnly(text, is_correct) ==
    LET parts == split(text, <<"#">>)
    IN IF Len(parts) <= 1
       THEN [text |-> text, correct |-> is_correct, percentage |-> None, feedback |-> None]
       ELSE LET second == strip(parts[2])
            IN IF IsPercentage(second)
               THEN [text |-> strip(parts[1]),
                     correct |-> is_correct,
                     percentage |-> float(Slice(second, 1, Len(second) - 1)),
                     feedback |-> IF Len(parts) > 2 THEN strip(parts[3]) ELSE None]
               ELSE [text |-> strip(parts[1]),
                     correct |-> is_correct,
                     percentage |-> None,
                     feedback |-> strip(join(Tail(parts), <<"#">>))]

_parse_answer_with_feedback(text, is_correct) ==
    LET parts == split(text, <<"#">>)
    IN IF Len(parts) <= 1
       THEN [text |-> text, correct |-> is_correct, percentage |-> None, feedback |-> None]
       ELSE LET second == strip(parts[2])
            IN IF IsPercentage(second)
               THEN [text |-> strip(parts[1]),
                     correct |-> is_correct,
                     percentage |-> float(Slice(second, 1, Len(second) - 1)),
                     feedback |-> IF Len(parts) > 2
                                  THEN strip(join(SubSeq(parts, 3, Len(parts)), <<"#">>))
                                  ELSE None]
               ELSE [text |-> strip(parts[1]),
                     correct |-> is_correct,
                     percentage |-> None,
                     feedback |-> strip(join(Tail(parts), <<"#">>))]

(***************************************************************************)
(* GiftParser._parse_multichoice                                           *)
(***************************************************************************)
Markers == {"=", "~", "%"}

\* re.split(r'([=~%])', s): texts and one-character markers in turn
RECURSIVE SplitMarkers(_)
SplitMarkers(s) ==
    LET at == {j \in 1..Len(s) : s[j] \in Markers}
    IN IF at = {} THEN <<s>>
       ELSE LET j == Min(at)
            IN <<Slice(s, 1, j - 1), <<s[j]>>>> \o SplitMarkers(From(s, j + 1))

\* the answers list with the pending (marker, text) finalized, when both are set
Finalize(answers, current_marker, current_text) ==
    IF current_marker # None /\ current_text # <<>>
    THEN Append(answers,
                _parse_answer_with_feedback(strip(current_text),
                                            current_marker = <<"=">> \/ current_marker = <<"%">>))
    ELSE answers

\* the loop over parts of the single-line form, and the finalization after it
RECURSIVE SingleLineAnswers(_, _, _, _)
SingleLineAnswers(parts, current_marker, current_text, answers) ==
    IF parts = <<>> THEN Finalize(answers, current_marker, current_text)
    ELSE IF Len(parts[1]) = 1 /\ parts[1][1] \in Markers
         THEN SingleLineAnswers(Tail(parts), parts[1], <<>>,
                                Finalize(answers, current_marker, current_text))
         ELSE SingleLineAnswers(Tail(parts), current_marker, current_text \o parts[1], answers)

\* the loop over lines of the multi-line form
RECURSIVE MultiLineAnswers(_, _)
MultiLineAnswers(lines, answers) ==
    IF lines = <<>> THEN answers
    ELSE LET line == strip(lines[1])
         IN IF line = <<>> \/ line[1] \notin Markers
            THEN MultiLineAnswers(Tail(lines), answers)
            ELSE MultiLineAnswers(Tail(lines),
                    Append(answers,
                           _parse_answer_with_feedback(strip(Tail(line)), line[1] # "~")))

_parse_multichoice(s) ==
    IF ~contains(s, <<"\n">>)
    THEN SingleLineAnswers(SplitMarkers(s), None, <<>>, <<>>)
    ELSE MultiLineAnswers(split(s, <<"\n">>), <<>>)

(***************************************************************************)
(* GiftParser._parse_matching                                              *)
(***************************************************************************)
RECURSIVE MatchingPairs(_, _)
MatchingPairs(lines, matches) ==
    IF lines = <<>> THEN matches
    ELSE LET line == strip(lines[1])
         IN IF line = <<>> \/ line[1] # "="
            THEN MatchingPairs(Tail(lines), matches)
            ELSE LET rest == strip(Tail(line))
                     arrow == find(rest, <<"-", ">">>, 1)
                 IN IF arrow = 0 THEN MatchingPairs(Tail(lines), matches)
                    ELSE MatchingPairs(Tail(lines),
                            Append(matches,
                                   [left |-> strip(Slice(rest, 1, arrow - 1)),
                                    right |-> strip(From(rest, arrow + 2))]))

\* a faulty variant of _parse_matching: the pair is cut at the last '->' of the line, not the first
RECURSIVE MatchingPairsLastArrow(_, _)
MatchingPairsLastArrow(lines, matches) ==
    IF lines = <<>> THEN matches
    ELSE LET line == strip(lines[1])
         IN IF line = <<>> \/ line[1] # "="
            THEN MatchingPairsLastArrow(Tail(lines), matches)
            ELSE LET rest == strip(Tail(line))
                     arrows == {j \in 1..(Len(rest) - 1) : Slice(rest, j, j + 1) = <<"-", ">">>}
                 IN IF arrows = {} THEN MatchingPairsLastArrow(Tail(lines), matches)
                    ELSE MatchingPairsLastArrow(Tail(lines),
                            Append(matches,
                                   [left |-> strip(Slice(rest, 1, Max(arrows) - 1)),
                                    right |-> strip(From(rest, Max(arrows) + 2))]))

_parse_matching_LastArrow(s) == MatchingPairsLastArrow(split(s, <<"\n">>), <<>>)

_parse_matching(s) == MatchingPairs(split(s, <<"\n">>), <<>>)

(***************************************************************************)
(* GiftParser._parse_question                                              *)
(***************************************************************************)
\* where the closing '::' of re.match(r'::(.*?)::', block) starts, 0 when no match:
\* '.' does not cross a newline
TitleClose(block) ==
    IF ~startswith(block, <<":", ":">>) THEN 0
    ELSE LET j == find(block, <<":", ":">>, 3)
             nl == find(block, <<"\n">>, 3)
         IN IF j # 0 /\ (nl = 0 \/ nl > j) THEN j ELSE 0

\* question['title']
TitleOf(block) ==
    IF TitleClose(block) = 0 THEN None ELSE strip(Slice(block, 3, TitleClose(block) - 1))

\* block after the title is cut off
AfterTitle(block) ==
    IF TitleClose(block) = 0 THEN block ELSE strip(From(block, TitleClose(block) + 2))

HtmlMarker == <<"[", "h", "t", "m", "l", "]">>

\* block after the [html] markers are removed
AfterHtml(block) ==
    IF contains(block, HtmlMarker) THEN strip(remove(block, HtmlMarker)) ELSE block

\* the text _parse_question looks for braces in
QuestionBody(block) == AfterHtml(AfterTitle(block))

\* a faulty variant of BraceMatch: the pattern without its '$' anchor, any later '}' closes the payload
BraceMatchUnanchored(block) ==
    /\ contains(block, <<"{">>)
    /\ find(block, <<"}">>, find(block, <<"{">>, 1) + 1) # 0

\* re.match(r'^(.*?)\{(.*)\}$', block, re.DOTALL) matches: block is stripped, so
\* '$' is its end
BraceMatch(block) == contains(block, <<"{">>) /\ block[Len(block)] = "}"

\* match.group(1).strip()
BraceText(block) == strip(Slice(block, 1, find(block, <<"{">>, 1) - 1))

\* a faulty variant of BracePayload: the payload ends at the first '}' after the '{'
BracePayloadFirstClose(block) ==
    strip(Slice(block, find(block, <<"{">>, 1) + 1,
                find(block, <<"}">>, find(block, <<"{">>, 1) + 1) - 1))

\* match.group(2).strip(): '(.*)' is greedy, up to the closing brace that ends the block
BracePayload(block) == strip(Slice(block, find(block, <<"{">>, 1) + 1, Len(block) - 1))

TrueFalseWords == {<<"T">>, <<"F">>, <<"T", "R", "U", "E">>, <<"F", "A", "L", "S", "E">>}

\* answers_block in ['T', 'F', 'TRUE', 'FALSE']
IsTrueFalse(answers_block) == answers_block \in TrueFalseWords

\* the answers of the shortanswer branch
ShortAnswers(answers_block) ==
    LET parts == split(answers_block, <<"=">>)
        NonEmpty(p) == strip(p) # <<>>
        kept == SelectSeq(Tail(parts), NonEmpty)
    IN [k \in 1..Len(kept) |-> [text |-> strip(kept[k]), correct |-> TRUE]]

\* a faulty variant of QuestionType: the multichoice test comes before the matching test
QuestionTypeChoiceFirst(answers_block) ==
    IF IsTrueFalse(answers_block) THEN "truefalse"
    ELSE IF IsNumerical(answers_block) THEN "numerical"
    ELSE IF \/ contains(answers_block, <<"\n">>)
            \/ startswith(answers_block, <<"=">>)
            \/ startswith(answers_block, <<"~">>)
            \/ startswith(answers_block, <<"%">>) THEN "multichoice"
    ELSE IF contains(answers_block, <<"-", ">">>) THEN "matching"
    ELSE "shortanswer"

\* the first branch of the if/elif chain that takes answers_block
QuestionType(answers_block) ==
    IF IsTrueFalse(answers_block) THEN "truefalse"
    ELSE IF IsNumerical(answers_block) THEN "numerical"
    ELSE IF contains(answers_block, <<"-", ">">>) THEN "matching"
    ELSE IF \/ contains(answers_block, <<"\n">>)
            \/ startswith(answers_block, <<"=">>)
            \/ startswith(answers_block, <<"~">>)
            \/ startswith(answers_block, <<"%">>) THEN "multichoice"
    ELSE "shortanswer"

\* question['answers'] of the branch taken
AnswersOf(answers_block) ==
    LET type == QuestionType(answers_block)
    IN CASE type = "truefalse" -> <<>>
         [] type = "numerical" -> _parse_numerical(answers_block)
         [] type = "matching" -> _parse_matching(answers_block)
         [] type = "multichoice" -> _parse_multichoice(answers_block)
         [] OTHER -> ShortAnswers(answers_block)

\* the dict _parse_question starts from
NewQuestion(block, category) ==
    [type |-> "unknown", text |-> <<>>, answers |-> <<>>, category |-> category,
     title |-> TitleOf(block), feedback |-> None]

\* the call ends in "question" (a dict), "None" or "ValueError"
_parse_question(block, category) ==
    LET body == QuestionBody(block)
        question == NewQuestion(block, category)
    IN IF ~contains(body, <<"{">>)
       THEN [outcome |-> "question",
             question |-> [question EXCEPT !.type = "description", !.text = strip(body)]]
       ELSE IF ~BraceMatch(body)
       THEN [outcome |-> "None", question |-> question]
       ELSE LET answers_block == BracePayload(body)
                type == QuestionType(answers_block)
                q == [question EXCEPT !.text = BraceText(body), !.type = type]
            IN IF type = "numerical" /\ NumericalRaises(answers_block)
               THEN [outcome |-> "ValueError", question |-> q]
               ELSE [outcome |-> "question",
                     question |->
                        IF type = "truefalse"
                        THEN [q EXCEPT !.answers = <<>>]
                             @@ [correct |-> upper(answers_block)
                                             \in {<<"T">>, <<"T", "R", "U", "E">>}]
                        ELSE [q EXCEPT !.answers = AnswersOf(answers_block)]]

(***************************************************************************)
(* The source texts the parser is run on.                                  *)
(***************************************************************************)
\* the sequences of 1..n elements of S
SeqsUpTo(S, n) == UNION {[1..k -> S] : k \in 1..n}

BlankLine == <<"\n", "\n">>

CategoryPrefix == <<"$", "C", "A", "T", "E", "G", "O", "R", "Y", ":">>

\* blocks of the documents that hold several blocks
StructBlocks ==
    {<<"$", "C", "A", "T", "E", "G", "O", "R", "Y", ":", " ", "M">>,
     <<"$", "C", "A", "T", "E", "G", "O", "R", "Y", ":", "S">>,
     <<"$", "x">>,
     <<"Q", "{", "T", "}">>,
     <<"Q", " ", "{", "T">>,
     <<"Q", "{", "#", "1", ".", "2", ".", "3", "}">>}

\* blocks parsed alone: titles, [html] markers, braces, directives
SingleBlocks ==
    {<<"$", "x">>,
     <<"D">>,
     <<":", ":", "t", ":", ":", "R", "{", "=", "a", "}">>,
     <<"[", "h", "t", "m", "l", "]", "Q", "{", "T", "}">>,
     <<"Q", "{", "T", "}", "[", "h", "t", "m", "l", "]">>,
     <<":", ":", "a", "{", ":", ":", "D">>,
     <<"$", "C", "A", "T", "E", "G", "O", "R", "Y", ":", "{", "M">>,
     <<"$", "C", "A", "T", "E", "G", "O", "R", "Y", ":", " ", "A", " ", "$", "C", "A", "T", "E", "G", "O", "R", "Y", ":", "B">>,
     <<"Q", "{", "=", "a", "#", "x", "}", "y", "}">>,
     <<"Q", "{", "a", "{", "b", "}">>,
     <<":", ":", "t", "\n", ":", ":", "Q">>,
     <<":", ":", ":", ":", "Q", "{", "F", "}">>,
     <<"Q", "{", "}">>,
     <<"{">>,
     <<"}">>,
     <<"Q", "{", "T", "}", "}">>,
     <<"Q", "}", "{", "T">>,
     <<":", ":", "t", ":", ":", " ", "[", "h", "t", "m", "l", "]", " ", "Q", " ", "{", " ", "T", "R", "U", "E", " ", "}">>,
     <<"$", "C", "A", "T", "E", "G", "O", "R", "Y", ":">>,
     <<"Q", "{", "T", "}", " ", "$", "C", "A", "T", "E", "G", "O", "R", "Y", ":", " ", "M">>,
     <<"\n", "\n", "D">>,
     <<"Q", "{", "=", "A", "-", ">", "}", "b", "}">>,
     <<"Q", "{", "=", "a", "}", "\n", "~", "b", "}">>,
     <<"Q", "{", "#", "5", "}", ":", "2", "}">>,
     <<"Q", "{", "#", "1", ".", "2", ".", "3", "}", "x", "}">>}

\* payloads around the truefalse words
TrueFalsePayloads ==
    {<<"T">>,
     <<"F">>,
     <<"T", "R", "U", "E">>,
     <<"F", "A", "L", "S", "E">>,
     <<"t">>,
     <<"f">>,
     <<"t", "r", "u", "e">>,
     <<"f", "a", "l", "s", "e">>,
     <<"T", "r", "u", "e">>,
     <<"F", "a", "l", "s", "e">>,
     <<"t", "R", "u", "E">>,
     <<"T", "F">>,
     <<"T", "R", "U", "E", "E">>}

\* number tokens of numerical items
NumberTokens ==
    {<<"7">>,
     <<"1", "0", "0">>,
     <<"1", ".", "5">>,
     <<"1", ".", "2", ".", "3">>,
     <<"+", "-">>}

\* tolerance suffixes of numerical items
ToleranceTokens ==
    {<<>>,
     <<":", "5">>,
     <<":", "0">>,
     <<":", "1", ".", "2", ".", "3">>}

\* lines of matching payloads
PairLines ==
    {<<"=", "A", " ", "-", ">", " ", "1">>,
     <<"=", "B", "-", ">", "2">>,
     <<"B", " ", "-", ">", " ", "2">>,
     <<"=", "C">>,
     <<"=", " ", "a", "-", ">", "b", "-", ">", "c", " ">>,
     <<"=", "-", ">">>,
     <<"~", "D", " ", "-", ">", " ", "4">>,
     <<>>}

\* written answers of multichoice and shortanswer payloads
AnswerTokens ==
    {<<"=", "a">>,
     <<"~", "b">>,
     <<"%", "c">>,
     <<"=", "C", "o", "r", "r", "e", "c", "t", "#", "1", "0", "0", "%">>,
     <<"~", "W", "r", "o", "n", "g", "#", "0", "%">>,
     <<"=", "a", "#", "f", "b">>,
     <<"~", "b", "#", "5", "0", "%", "#", "f", "b", "#", "g">>,
     <<"=", " ", "#", " ">>,
     <<"x">>,
     <<"a", "=", "b">>}

\* pieces of the texts with comments
CommentPieces ==
    {<<"/", "*">>,
     <<"*", "/">>,
     <<"/", "/">>,
     <<"a">>,
     <<"\n">>,
     <<"\n", "\n">>}


\* payloads that meet several of the type tests, or none
MixedPayloads ==
    {<<>>,
     <<"=", "a", "#", " ", "f", "b", "\n", "~", "b", "#", " ", "5", "0", "%", " ", "#", " ", "f">>,
     <<"=", "a", "#", "\n", "%", "c", "#", "5", "%", "#">>,
     <<" ", "=", "a", " ", "\n", "x", "\n", "~", "b", " ", "#", " ", "1", ".", "5", "%", " ">>,
     <<"=", "a", " ", "#", "5", "0", " ", "%", "\n", "~", "b", "#", ".", "5", "%", "#", "f">>,
     <<"=", "a", "\n", "\n", "~", "b">>,
     <<"#", "-", ">">>,
     <<"#", "5", "-", ">">>,
     <<"#", " ", "5">>,
     <<"#", "x">>,
     <<"#", "-">>,
     <<"T", "-", ">">>,
     <<"T", "R", "U", "E", "\n">>,
     <<"a", "-", ">", "b">>,
     <<"a", "\n", "-", ">">>,
     <<"%", "-", ">">>,
     <<"~", "a", "-", ">", "b">>,
     <<"=", "a", "\n", "~", "b", "-", ">", "c">>,
     <<"a", "\n", "b">>,
     <<"#", "\n", "5">>,
     <<" ", "=", " ">>}

\* '#<number>[:<tolerance>]'
NumericalItems == {<<"#">> \o n \o t : n \in NumberTokens, t \in ToleranceTokens}

NumericalPayloads == {join(items, <<" ">>) : items \in SeqsUpTo(NumericalItems, MaxItems)}

MatchingPayloads == {join(lines, <<"\n">>) : lines \in SeqsUpTo(PairLines, MaxLines)}

\* answers on one line, separated by a space, and one answer per line
ChoicePayloads ==
    {join(answers, sep) : answers \in SeqsUpTo(AnswerTokens, MaxItems),
                          sep \in {<<" ">>, <<"\n">>}}

Payloads ==
    TrueFalsePayloads \cup NumericalPayloads \cup MatchingPayloads \cup ChoicePayloads
    \cup MixedPayloads

PayloadBlocks == {<<"Q", "{">> \o p \o <<"}">> : p \in Payloads}

Documents ==
    {join(bs, BlankLine) : bs \in SeqsUpTo(StructBlocks, MaxBlocks)}
    \cup SingleBlocks
    \cup PayloadBlocks
    \cup {join(ps, <<>>) : ps \in SeqsUpTo(CommentPieces, MaxPieces)}

(***************************************************************************)
(* GiftParser.__init__ and GiftParser.parse                                *)
(***************************************************************************)
Init ==
    /\ content \in Documents
    /\ blocks = <<>>
    /\ i = 1
    /\ questions = <<>>
    /\ current_category = DefaultCategory
    /\ pc = "start"
    /\ returned = <<>>

\* the file is read, comments are removed, the text is split into blocks
ReadAndSplit ==
    /\ pc = "start"
    /\ blocks' = SplitBlocks(_remove_comments(content))
    /\ i' = 1
    /\ pc' = "loop"
    /\ UNCHANGED <<content, questions, current_category, returned>>

\* block = block.strip() of the block the loop is at
Block == strip(blocks[i])

InLoop == pc = "loop" /\ i <= Len(blocks)

\* the category a '$CATEGORY:' block sets
CategoryOf(block) == strip(remove(block, CategoryPrefix))

EmptyBlock ==
    /\ InLoop
    /\ Block = <<>>
    /\ i' = i + 1
    /\ UNCHANGED <<content, blocks, questions, current_category, pc, returned>>

CategoryDirective ==
    /\ InLoop
    /\ Block # <<>>
    /\ startswith(Block, CategoryPrefix)
    /\ current_category' = CategoryOf(Block)
    /\ i' = i + 1
    /\ UNCHANGED <<content, blocks, questions, pc, returned>>

OtherDirective ==
    /\ InLoop
    /\ Block # <<>>
    /\ ~startswith(Block, CategoryPrefix)
    /\ startswith(Block, <<"$">>)
    /\ i' = i + 1
    /\ UNCHANGED <<content, blocks, questions, current_category, pc, returned>>

IsQuestionBlock == InLoop /\ Block # <<>> /\ ~startswith(Block, <<"$">>)

\* a faulty variant of QuestionBlock: the stamp is applied to the whole list, relabelling earlier questions
QuestionBlockRelabels ==
    /\ IsQuestionBlock
    /\ LET r == _parse_question(Block, current_category)
           all == Append(questions, r.question)
       IN /\ r.outcome = "question"
          /\ questions' = [k \in 1..Len(all) |->
                              [all[k] EXCEPT !.category = current_category]]
    /\ i' = i + 1
    /\ UNCHANGED <<content, blocks, current_category, pc, returned>>

\* _parse_question returns a question: it is stamped and appended
QuestionBlock ==
    /\ IsQuestionBlock
    /\ LET r == _parse_question(Block, current_category)
       IN /\ r.outcome = "question"
          /\ questions' = Append(questions,
                                 [r.question EXCEPT !.category = current_category])
    /\ i' = i + 1
    /\ UNCHANGED <<content, blocks, current_category, pc, returned>>

\* _parse_question returns None: the block is dropped
SkippedBlock ==
    /\ IsQuestionBlock
    /\ _parse_question(Block, current_category).outcome = "None"
    /\ i' = i + 1
    /\ UNCHANGED <<content, blocks, questions, current_category, pc, returned>>

\* float() raises ValueError inside _parse_numerical: parse ends with it
RaisingBlock ==
    /\ IsQuestionBlock
    /\ _parse_question(Block, current_category).outcome = "ValueError"
    /\ pc' = "raised"
    /\ UNCHANGED <<content, blocks, i, questions, current_category, returned>>

\* return self.questions
Return ==
    /\ pc = "loop"
    /\ i > Len(blocks)
    /\ returned' = Append(returned, questions)
    /\ pc' = "done"
    /\ UNCHANGED <<content, blocks, i, questions, current_category>>

\* parse is called again on the same GiftParser
ParseAgain ==
    /\ pc = "done"
    /\ Len(returned) < MaxCalls
    /\ pc' = "start"
    /\ UNCHANGED <<content, blocks, i, questions, current_category, returned>>

Next ==
    \/ ReadAndSplit
    \/ EmptyBlock
    \/ CategoryDirective
    \/ OtherDirective
    \/ QuestionBlock
    \/ SkippedBlock
    \/ RaisingBlock
    \/ Return

\* one parse call on a new GiftParser, as main runs it
Spec == Init /\ [][Next]_vars

NextReuse == Next \/ ParseAgain

\* parse calls repeated on one GiftParser
SpecReuse == Init /\ [][NextReuse]_vars

(***************************************************************************)
(* The properties checked.  A step of the loop is described by the block   *)
(* it handles (Block, in the state before the step) and by the question it *)
(* appends (Appended, in the state after it).                              *)
(***************************************************************************)
\* the step appends one question
Emitted == Len(questions') = Len(questions) + 1

\* the question the step appends
Appended == questions'[Len(questions')]

\* the step leaves the parser as it found it, but for the loop moving on
LeavesNoTrace ==
    /\ questions' = questions
    /\ current_category' = current_category
    /\ pc' = "loop"

\* the block holds a question with an answer payload
HasPayload == IsQuestionBlock /\ BraceMatch(QuestionBody(Block))

\* the answer payload of the block
Payload == BracePayload(QuestionBody(Block))

\* the category set by the last '$CATEGORY:' block before block k of the document,
\* the default one when there is none
CategoryBefore(k) ==
    LET ds == {j \in 1..(k - 1) : startswith(strip(blocks[j]), CategoryPrefix)}
    IN IF ds = {} THEN DefaultCategory ELSE CategoryOf(strip(blocks[Max(ds)]))

\* C1: every question is appended with the category of the most recent
\* '$CATEGORY:' block before it in the document (the default category when none
\* precedes it), and no step changes a question that is already in the list.
C1_CategoryPropagation ==
    [][/\ Len(questions') >= Len(questions)
       /\ SubSeq(questions', 1, Len(questions)) = questions
       /\ (InLoop /\ Emitted) => Appended.category = CategoryBefore(i)]_vars

\* C1 witness: Q1 was stamped M, then a directive set S and Q2 was stamped S
C1_Witness ==
    /\ pc = "done"
    /\ Len(questions) = 2
    /\ questions[1].category = <<"M">>
    /\ questions[2].category = <<"S">>

\* C2 as stated: a block that contains '{' and does not end with '}' produces no
\* question, raises nothing and leaves the parse of the other blocks as it would
\* be without it (the loop carries nothing from block to block but the question
\* list and the current category, so that is: the step changes neither).
C2_AnyUnclosedBlock ==
    [][(InLoop /\ contains(Block, <<"{">>) /\ ~endswith(Block, <<"}">>))
       => LeavesNoTrace]_vars

\* C2 amended: a block that is not a '$' directive and whose text, after the
\* leading ::title:: and the [html] markers are removed and the rest is trimmed,
\* contains '{' and does not end with '}' produces no question, raises nothing
\* and leaves the parse of the other blocks as it would be without it.
C2_UnclosedQuestionBody ==
    [][(/\ IsQuestionBlock
        /\ contains(QuestionBody(Block), <<"{">>)
        /\ ~endswith(QuestionBody(Block), <<"}">>))
       => LeavesNoTrace]_vars

\* C2 witness: 'Q {T' was dropped and the block after it gave the only question
C2_Witness ==
    /\ pc = "done"
    /\ Len(blocks) = 2
    /\ blocks[1] = <<"Q", " ", "{", "T">>
    /\ Len(questions) = 1
    /\ questions[1].type = "truefalse"

\* C3: parse never ends with an exception, whatever the blocks hold.
C3_NeverRaises == pc # "raised"

\* C4: a payload that is T, F, TRUE or FALSE in any letter case gives a truefalse
\* question with no answers, and correct is true exactly for T and TRUE.
C4_TrueFalseAnyCase ==
    [][(HasPayload /\ upper(Payload) \in TrueFalseWords)
       => /\ Emitted
          /\ Appended.type = "truefalse"
          /\ Appended.answers = <<>>
          /\ "correct" \in DOMAIN Appended
          /\ Appended.correct = (upper(Payload) \in {<<"T">>, <<"T", "R", "U", "E">>})]_vars

\* answers as written on one line: a marker, a text and a '#<n>%' suffix
WrittenChoices ==
    [marker : {"=", "~"},
     text : {<<"C", "o", "r", "r", "e", "c", "t">>, <<"W", "r", "o", "n", "g">>},
     n : {0, 100}]

WrittenChoice(w) == <<w.marker>> \o w.text \o <<"#">> \o NatToDigits(w.n) \o <<"%">>

\* C5: a single line of answers written as marker, text and '#<n>%' gives one
\* answer per written answer, in order, with the written text, correct for '='
\* only, percentage n and no feedback.
C5_SingleLinePercentages ==
    [][\A ws \in SeqsUpTo(WrittenChoices, MaxItems) :
          (HasPayload
           /\ Payload = join([k \in 1..Len(ws) |-> WrittenChoice(ws[k])], <<" ">>))
          => /\ Emitted
             /\ Appended.type = "multichoice"
             /\ Appended.answers =
                   [k \in 1..Len(ws) |->
                       [text |-> ws[k].text,
                        correct |-> ws[k].marker = "=",
                        percentage |-> Float("+", ws[k].n, <<>>),
                        feedback |-> None]]]_vars

\* the payload is one line of '='-led answers without '~', '%', '#' or '->'
OnlyEqualsAnswers(p) ==
    /\ startswith(p, <<"=">>)
    /\ \A j \in 1..Len(p) : p[j] \notin {"\n", "~", "%", "#"}
    /\ ~contains(p, <<"-", ">">>)

\* the non-empty trimmed segments after each '=' of p, in order
EqualsSegments(p) ==
    LET segs == Tail(split(p, <<"=">>))
        Filled(x) == strip(x) # <<>>
        kept == SelectSeq(segs, Filled)
    IN [k \in 1..Len(kept) |-> strip(kept[k])]

\* C6: a single line of '='-led answers without '~', '%', '#' or '->' gives a
\* shortanswer question whose answers are the segments after each '=', all correct.
C6_EqualsLineIsShortAnswer ==
    [][(HasPayload /\ OnlyEqualsAnswers(Payload))
       => /\ Emitted
          /\ Appended.type = "shortanswer"
          /\ Appended.answers =
                [k \in 1..Len(EqualsSegments(Payload)) |->
                    [text |-> EqualsSegments(Payload)[k], correct |-> TRUE]]]_vars

\* the text with its comments removed by hand, reading left to right: a '/*' that
\* has a later '*/' goes with everything up to that '*/', a '//' goes with the
\* rest of its line
RECURSIVE CommentsRemovedByHand(_)
CommentsRemovedByHand(s) ==
    IF s = <<>> THEN <<>>
    ELSE IF startswith(s, <<"/", "*">>) /\ find(s, <<"*", "/">>, 3) # 0
    THEN CommentsRemovedByHand(From(s, find(s, <<"*", "/">>, 3) + 2))
    ELSE IF startswith(s, <<"/", "/">>)
    THEN (IF find(s, <<"\n">>, 1) = 0 THEN <<>>
          ELSE CommentsRemovedByHand(From(s, find(s, <<"\n">>, 1))))
    ELSE <<s[1]>> \o CommentsRemovedByHand(Tail(s))

\* the blocks the loop does not skip as empty, trimmed
NonEmptyBlocks(bs) ==
    LET Filled(b) == strip(b) # <<>>
        kept == SelectSeq(bs, Filled)
    IN [k \in 1..Len(kept) |-> strip(kept[k])]

\* C7: the blocks parse works on are the blocks of the text with its comments
\* removed by hand, also when a block comment holds '//'.
C7_BlocksOfUncommentedText ==
    pc = "loop"
    => NonEmptyBlocks(blocks) = NonEmptyBlocks(SplitBlocks(CommentsRemovedByHand(content)))

\* numerical items as written: '#<n>' or '#<n>:<t>' with non-negative integers
WrittenNumbers == [n : {7, 100}, given : BOOLEAN, t : {0, 5}]

WrittenNumber(w) ==
    <<"#">> \o NatToDigits(w.n) \o (IF w.given THEN <<":">> \o NatToDigits(w.t) ELSE <<>>)

\* the tolerance of a written item: 0 when omitted
ToleranceOf(w) == IF w.given THEN w.t ELSE 0

\* C8: items '#<n>[:<t>]' with non-negative integers give one answer each, in
\* order, with value n, tolerance t (0 when omitted) and the display text 'n' when
\* the tolerance is 0 and 'n ± t' when it is positive.
C8_NumericalDisplay ==
    [][\A ws \in SeqsUpTo(WrittenNumbers, MaxItems) :
          (HasPayload
           /\ Payload = join([k \in 1..Len(ws) |-> WrittenNumber(ws[k])], <<" ">>))
          => /\ Emitted
             /\ Appended.type = "numerical"
             /\ Appended.answers =
                   [k \in 1..Len(ws) |->
                       [value |-> Float("+", ws[k].n, <<>>),
                        tolerance |-> Float("+", ToleranceOf(ws[k]), <<>>),
                        text |-> NatToDigits(ws[k].n)
                                 \o (IF ToleranceOf(ws[k]) > 0
                                     THEN <<" ", "±", " ">> \o NatToDigits(ToleranceOf(ws[k]))
                                     ELSE <<>>)]]]_vars

\* the line, trimmed, starts with '=' and holds '->'
IsPairLine(line) == startswith(strip(line), <<"=">>) /\ contains(strip(line), <<"-", ">">>)

\* the pair of a pair line: the trimmed texts before and after the first '->' of
\* the line without its leading '='
PairOf(line) ==
    LET t == Tail(strip(line))
        a == Min({j \in 1..Len(t) : startswith(From(t, j), <<"-", ">">>)})
    IN [left |-> strip(Slice(t, 1, a - 1)), right |-> strip(From(t, a + 2))]

\* C9: a matching payload gives, in line order, exactly the pairs of its pair
\* lines; any other line gives no pair and no error.
C9_MatchingPairs ==
    [][(HasPayload /\ QuestionType(Payload) = "matching")
       => LET kept == SelectSeq(split(Payload, <<"\n">>), IsPairLine)
          IN /\ Emitted
             /\ Appended.type = "matching"
             /\ Appended.answers = [k \in 1..Len(kept) |-> PairOf(kept[k])]]_vars

\* C9 witness: '=A -> 1' gave the pair (A, 1) and 'B -> 2', without '=', gave none
C9_Witness ==
    /\ pc = "done"
    /\ content = <<"Q", "{", "=", "A", " ", "-", ">", " ", "1", "\n",
                   "B", " ", "-", ">", " ", "2", "}">>
    /\ Len(questions) = 1
    /\ questions[1].type = "matching"
    /\ questions[1].answers = <<[left |-> <<"A">>, right |-> <<"1">>]>>

\* C10: every parse call on one GiftParser starts from an empty question list and
\* the default category, and returns what the first call returned.
C10_CallsAreIndependent ==
    /\ pc = "start" => (questions = <<>> /\ current_category = DefaultCategory)
    /\ \A a, b \in 1..Len(returned) : returned[a] = returned[b]

\* p is one of the words T, F, TRUE, FALSE as written
LooksTrueFalse(p) ==
    p \in {<<"T">>, <<"F">>, <<"T", "R", "U", "E">>, <<"F", "A", "L", "S", "E">>}

\* p is '#', optional whitespace, then a character of a number
LooksNumerical(p) ==
    /\ p # <<>>
    /\ p[1] = "#"
    /\ LET filled == {j \in 2..Len(p) : p[j] \notin Whitespace}
       IN filled # {} /\ p[Min(filled)] \in Digits \cup {".", "-", "+"}

HasArrow(p) == \E j \in 1..(Len(p) - 1) : p[j] = "-" /\ p[j + 1] = ">"

LooksMultichoice(p) ==
    \/ \E j \in 1..Len(p) : p[j] = "\n"
    \/ p # <<>> /\ p[1] \in {"=", "~", "%"}

\* the first match in the order truefalse, numerical, matching, multichoice, with
\* shortanswer for what is left
FirstMatch(p) ==
    IF LooksTrueFalse(p) THEN "truefalse"
    ELSE IF LooksNumerical(p) THEN "numerical"
    ELSE IF HasArrow(p) THEN "matching"
    ELSE IF LooksMultichoice(p) THEN "multichoice"
    ELSE "shortanswer"

\* C11: a question with an answer payload gets the type of the first match in
\* the order truefalse, numerical, matching, multichoice, shortanswer; a payload
\* with '->' that is neither truefalse nor numerical is matching, whatever else it
\* holds; the type is never unknown.  (A payload is truefalse when it is T, F,
\* TRUE or FALSE as written; a numerical payload whose token float() refuses ends
\* the parse and gives no question.)
C11_FirstMatchDecidesType ==
    [][HasPayload
       => /\ Emitted \/ (pc' = "raised" /\ FirstMatch(Payload) = "numerical")
          /\ Emitted
             => /\ Appended.type = FirstMatch(Payload)
                /\ Appended.type # "unknown"
                /\ (HasArrow(Payload) /\ ~LooksTrueFalse(Payload) /\ ~LooksNumerical(Payload))
                   => Appended.type = "matching"]_vars

\* C11 witness: a payload with '->', a newline and a leading '=' was typed matching
C11_Witness ==
    /\ pc = "done"
    /\ content = <<"Q", "{", "=", "A", " ", "-", ">", " ", "1", "\n",
                   "=", "B", "-", ">", "2", "}">>
    /\ Len(questions) = 1
    /\ questions[1].type = "matching"

\* where the first '{' of the block's text is
OpenAt == find(QuestionBody(Block), <<"{">>, 1)

\* where the first '}' after it is
FirstCloseAt == find(QuestionBody(Block), <<"}">>, OpenAt + 1)

\* the block ends with '}' and holds an earlier '}' after its first '{'
HasInnerClose == HasPayload /\ FirstCloseAt < Len(QuestionBody(Block))

\* the trimmed text between the first '{' and the first '}'
UpToFirstClose == strip(Slice(QuestionBody(Block), OpenAt + 1, FirstCloseAt - 1))

\* the trimmed text between the first '{' and the '}' that ends the block
UpToLastClose == strip(Slice(QuestionBody(Block), OpenAt + 1, Len(QuestionBody(Block)) - 1))

\* the step does to the block what the classifier does with payload p: the
\* question of p's type and answers, or the ValueError of p's number tokens
ClassifiedAs(p) ==
    IF FirstMatch(p) = "numerical" /\ NumericalRaises(p)
    THEN pc' = "raised"
    ELSE /\ Emitted
         /\ Appended.type = FirstMatch(p)
         /\ Appended.answers = AnswersOf(p)

\* C12 as stated: with an earlier '}' in the answer text, the classifier gets the
\* text between the first '{' and the first '}'.
C12_PayloadEndsAtFirstClose ==
    [][HasInnerClose => ClassifiedAs(UpToFirstClose)]_vars

\* C12 amended: with an earlier '}' in the answer text, the classifier gets the
\* text between the first '{' and the '}' that ends the block, the earlier '}'
\* included; brace depth is not tracked.
C12_PayloadEndsAtLastClose ==
    [][HasInnerClose => ClassifiedAs(UpToLastClose)]_vars

\* C12 witness: the feedback of 'Q{=a#x}y}' runs past the first '}'
C12_Witness ==
    /\ pc = "done"
    /\ content = <<"Q", "{", "=", "a", "#", "x", "}", "y", "}">>
    /\ Len(questions) = 1
    /\ questions[1].answers[1].feedback = <<"x", "}", "y">>

\* the payload is multichoice and spans several lines
IsMultiLineChoice(p) == FirstMatch(p) = "multichoice" /\ \E j \in 1..Len(p) : p[j] = "\n"

\* the marker-led lines of the payload, trimmed, in order
MarkerLines(p) ==
    LET lines == split(p, <<"\n">>)
    IN SelectSeq([k \in 1..Len(lines) |-> strip(lines[k])],
                 LAMBDA l : l # <<>> /\ l[1] \in {"=", "~", "%"})

\* the '#'-segments of the line after its marker
SegmentsOf(line) == split(strip(Tail(line)), <<"#">>)

\* an integer or a decimal followed by '%'
IsWrittenPercentage(seg) ==
    /\ Len(seg) >= 2
    /\ seg[Len(seg)] = "%"
    /\ LET n == Slice(seg, 1, Len(seg) - 1)
       IN \/ AllDigits(n)
          \/ \E d \in 2..(Len(n) - 1) : /\ n[d] = "."
                                        /\ AllDigits(Slice(n, 1, d - 1))
                                        /\ AllDigits(From(n, d + 1))

\* the answer of a marker-led line as C13 states it: the second segment and the
\* feedback are taken as written
AnswerAsWritten(line) ==
    LET segs == SegmentsOf(line)
        rest(k) == join(SubSeq(segs, k, Len(segs)), <<"#">>)
    IN [text |-> strip(segs[1]),
        correct |-> line[1] \in {"=", "%"},
        percentage |-> IF Len(segs) > 1 /\ IsWrittenPercentage(segs[2])
                       THEN float(Slice(segs[2], 1, Len(segs[2]) - 1))
                       ELSE None,
        feedback |-> IF Len(segs) = 1 THEN None
                     ELSE IF ~IsWrittenPercentage(segs[2]) THEN rest(2)
                     ELSE IF Len(segs) > 2 THEN rest(3)
                     ELSE None]

\* the answer of a marker-led line with the second segment trimmed before the
\* percentage test and the feedback trimmed
AnswerTrimmed(line) ==
    LET segs == SegmentsOf(line)
        second == strip(segs[2])
        rest(k) == strip(join(SubSeq(segs, k, Len(segs)), <<"#">>))
    IN [text |-> strip(segs[1]),
        correct |-> line[1] \in {"=", "%"},
        percentage |-> IF Len(segs) > 1 /\ IsWrittenPercentage(second)
                       THEN float(Slice(second, 1, Len(second) - 1))
                       ELSE None,
        feedback |-> IF Len(segs) = 1 THEN None
                     ELSE IF ~IsWrittenPercentage(second) THEN rest(2)
                     ELSE IF Len(segs) > 2 THEN rest(3)
                     ELSE None]

\* C13 as stated: every marker-led line of a multi-line multichoice payload gives
\* one answer, correct for '=' and '%' and not for '~', with the trimmed text
\* before the first '#'; a second segment that is a number followed by '%' is the
\* percentage and the remaining segments rejoined with '#' are the feedback;
\* otherwise the segments from the second on rejoined with '#' are the feedback.
C13_AnswersAsWritten ==
    [][(HasPayload /\ IsMultiLineChoice(Payload))
       => /\ Emitted
          /\ Appended.type = "multichoice"
          /\ Appended.answers = [k \in 1..Len(MarkerLines(Payload)) |->
                                    AnswerAsWritten(MarkerLines(Payload)[k])]]_vars

\* C13 amended: the same, with the second segment trimmed before it is tested
\* for a percentage and the feedback trimmed of surrounding whitespace.
C13_AnswersTrimmed ==
    [][(HasPayload /\ IsMultiLineChoice(Payload))
       => /\ Emitted
          /\ Appended.type = "multichoice"
          /\ Appended.answers = [k \in 1..Len(MarkerLines(Payload)) |->
                                    AnswerTrimmed(MarkerLines(Payload)[k])]]_vars

\* C13 witness: the two lines '=a# fb' and '~b# 50% # f' are parsed
C13_Witness ==
    /\ pc = "done"
    /\ content = <<"Q", "{", "=", "a", "#", " ", "f", "b", "\n",
                   "~", "b", "#", " ", "5", "0", "%", " ", "#", " ", "f", "}">>
    /\ Len(questions) = 1
    /\ questions[1].answers =
          <<[text |-> <<"a">>, correct |-> TRUE, percentage |-> None,
             feedback |-> <<"f", "b">>],
            [text |-> <<"b">>, correct |-> FALSE, percentage |-> float(<<"5", "0">>),
             feedback |-> <<"f">>]>>

====
